---- MODULE Spec2Model ----
(***************************************************************************)
(* Model of package pprofrec (src/pprofrec.go): the Window handler with    *)
(* its background sampler and shared buffer rs, the Stream handler, the    *)
(* capability prober, the sampler getRecord and the diff renderer          *)
(* writeRow with its per-type column writers.                              *)
(*                                                                         *)
(* Numbers.  Go's uint64 / int64 / uint32 are kept at their real width.    *)
(* A w-bit word is a sequence of 16-bit limbs, most significant first:     *)
(* four limbs for 64 bits, two limbs for 32 bits.  Subtraction wraps       *)
(* modulo 2^w by a borrow chain, int64(x) reinterprets the top bit of a    *)
(* four-limb word as the sign, and int64 of a uint32 zero-extends.         *)
(***************************************************************************)
EXTENDS Integers, Sequences, FiniteSets, TLC

(***************************************************************************)
(* Bounds of the model.                                                    *)
(***************************************************************************)
\* number of samples the Window sampler (resp. a Stream session) may take
MaxTicks == 5
\* number of HTTP requests the Window handler serves, one after the other
MaxRequests == 1

(***************************************************************************)
(* Fixed-width arithmetic.                                                 *)
(***************************************************************************)
\* one limb holds 16 bits
Limb == 2 ^ 16
HalfLimb == 2 ^ 15

\* the limbs of a 64-bit and of a 32-bit word
Zero64 == <<0, 0, 0, 0>>
Zero32 == <<0, 0>>

\* a small natural number (below 2^16) as a uint64 / uint32
U64(n) == <<0, 0, 0, n>>
U32(n) == <<0, n>>

\* borrow into limb k, produced by the less significant limbs k+1..Len(x)
RECURSIVE Borrow(_, _, _)
Borrow(x, y, k) ==
    IF k = Len(x) THEN 0
    ELSE IF x[k + 1] - y[k + 1] - Borrow(x, y, k + 1) < 0 THEN 1 ELSE 0

\* x - y on unsigned words of the same width, wrapping modulo 2^width
SubWrap(x, y) ==
    [k \in 1..Len(x) |-> (x[k] - y[k] - Borrow(x, y, k)) % Limb]

\* unsigned comparison of two words of the same width
RECURSIVE LessFrom(_, _, _)
LessFrom(x, y, k) ==
    IF k > Len(x) THEN FALSE
    ELSE IF x[k] # y[k] THEN x[k] < y[k]
    ELSE LessFrom(x, y, k + 1)

ULess(x, y) == LessFrom(x, y, 1)

\* int64(v) for a uint32 v: zero extension
Int64FromUint32(v) == <<0, 0>> \o v

\* sign of a 64-bit word read as an int64 (two's complement)
IsZero(d) == \A k \in 1..Len(d) : d[k] = 0
IsNegative64(d) == d[1] >= HalfLimb

\* signed comparison of two 64-bit words read as int64
SLess(x, y) ==
    IF IsNegative64(x) # IsNegative64(y) THEN IsNegative64(x)
    ELSE ULess(x, y)

\* saturation values of time.Duration
maxDuration == <<HalfLimb - 1, Limb - 1, Limb - 1, Limb - 1>>
minDuration == <<HalfLimb, 0, 0, 0>>

(***************************************************************************)
(* Diff renderer: the delta of each kind of field and its classification.  *)
(***************************************************************************)
\* the switch on diff in writeIntCol, writeUint64Col, writeBytesCol,
\* writeDuration and writeTime: the style of the delta cell
DiffColor(diff) ==
    IF ~IsZero(diff) /\ ~IsNegative64(diff) THEN "green"
    ELSE IF IsNegative64(diff) THEN "red"
    ELSE "gray"

\* int64(current.F - previous.F) for a uint64 field F
DeltaUint64(previous, current) == SubWrap(current, previous)

\* int64(current.NumGC - previous.NumGC): the subtraction is done in uint32
DeltaUint32(previous, current) == Int64FromUint32(SubWrap(current, previous))

\* current.f - previous.f for an int profile counter (int is 64 bits wide)
DeltaInt(previous, current) == SubWrap(current, previous)

\* time.Duration(current.PauseTotalNs - previous.PauseTotalNs)
DeltaDurationNs(previous, current) == SubWrap(current, previous)

\* time.Unix(0, int64(current.LastGC)).Sub(time.Unix(0, int64(previous.LastGC))):
\* the signed difference of the two instants, saturated by Time.Sub
DeltaLastGC(previous, current) ==
    LET d == SubWrap(current, previous)
        overflow == /\ IsNegative64(current) # IsNegative64(previous)
                    /\ IsNegative64(d) # IsNegative64(current)
    IN  IF ~overflow THEN d
        ELSE IF SLess(current, previous) THEN minDuration
        ELSE maxDuration

\* time.Duration((current.User - previous.User) * float64(time.Second)):
\* a CPU time is held in whole nanoseconds, below 2^63
DeltaSeconds(previous, current) == SubWrap(current, previous)

\* one (value, delta) column pair as the column writers emit it: the value
\* cell, then the delta cell in the style chosen by the switch on diff
writeIntCol(v, diff) == [value |-> v, color |-> DiffColor(diff), diff |-> diff]
writeUint64Col(v, diff) == [value |-> v, color |-> DiffColor(diff), diff |-> diff]
writeBytesCol(v, diff) == [value |-> v, color |-> DiffColor(diff), diff |-> diff]
writeDuration(v, diff) == [value |-> v, color |-> DiffColor(diff), diff |-> diff]
writeTime(v, diff) == [value |-> v, color |-> DiffColor(diff), diff |-> diff]

(***************************************************************************)
(* writeHumanBytes: a signed byte count as text in binary units.           *)
(***************************************************************************)
\* bit k (0 = least significant) of a word of any number of limbs
Bit(x, k) ==
    IF k \div 16 >= Len(x) THEN 0
    ELSE (x[Len(x) - (k \div 16)] \div (2 ^ (k % 16))) % 2

\* the number of bits of one limb, 0 for 0
LimbLen(v) == IF v = 0 THEN 0 ELSE CHOOSE n \in 1..16 : 2 ^ (n - 1) <= v /\ v < 2 ^ n

\* bits.Len64(x): the number of bits needed to represent x, 0 for 0
Len64(x) ==
    IF x[1] # 0 THEN 48 + LimbLen(x[1])
    ELSE IF x[2] # 0 THEN 32 + LimbLen(x[2])
    ELSE IF x[3] # 0 THEN 16 + LimbLen(x[3])
    ELSE LimbLen(x[4])

\* carry into limb k when the small number n is added to x
RECURSIVE CarryInto(_, _, _)
CarryInto(x, n, k) ==
    IF k = Len(x) THEN n ELSE (x[k + 1] + CarryInto(x, n, k + 1)) \div Limb

\* x + n for a small n, wrapping modulo 2^width
AddSmall(x, n) == [k \in 1..Len(x) |-> (x[k] + CarryInto(x, n, k)) % Limb]

\* the magnitude of float64(bytes): a uint64 of at most 53 bits is exact,
\* a longer one is rounded to 53 bits, to nearest and to even on a tie
Float64Of(abs) ==
    LET d    == Len64(abs) - 53
        low  == abs[4] % (2 ^ d)
        cut  == [abs EXCEPT ![4] = abs[4] - low]
        up   == \/ 2 * low > 2 ^ d
                \/ 2 * low = 2 ^ d /\ Bit(abs, d) = 1
    IN  IF d <= 0 THEN abs
        ELSE IF up THEN AddSmall(cut, 2 ^ d) ELSE cut

\* carry into limb k of 1000 * x, produced by the less significant limbs
RECURSIVE MulCarry(_, _)
MulCarry(x, k) ==
    IF k = Len(x) THEN 0 ELSE (x[k + 1] * 1000 + MulCarry(x, k + 1)) \div Limb

\* 1000 * x, one limb longer than x
Times1000(x) ==
    [k \in 1..(Len(x) + 1) |->
        IF k = 1 THEN MulCarry(x, 0)
        ELSE (x[k - 1] * 1000 + MulCarry(x, k - 1)) % Limb]

\* the bits k+s of x (k = 0..20) as a number: floor(x / 2^s) below 2^21
RECURSIVE ShiftedFrom(_, _, _)
ShiftedFrom(x, s, k) ==
    IF k > 20 THEN 0 ELSE Bit(x, s + k) + 2 * ShiftedFrom(x, s, k + 1)

\* "%.3f" of val = float64(bytes) / float64(1 << s), as its magnitude in
\* thousandths: the exact quotient rounded to three decimals, to nearest
\* and to even on a tie
Thousandths(abs, s) ==
    LET x      == Times1000(Float64Of(abs))
        q      == ShiftedFrom(x, s, 0)
        half   == s > 0 /\ Bit(x, s - 1) = 1
        sticky == \E k \in 0..(s - 2) : Bit(x, k) = 1
    IN  IF half /\ (sticky \/ q % 2 = 1) THEN q + 1 ELSE q

\* three decimals
Pad3(n) ==
    IF n < 10 THEN "00" \o ToString(n)
    ELSE IF n < 100 THEN "0" \o ToString(n)
    ELSE ToString(n)

\* Units with the letters of " KMGTPE" moved down by one
Units_NoSpace == <<"K", "M", "G", "T", "P", "E", "Z">>

\* the string " KMGTPE", indexed from 1
Units == <<" ", "K", "M", "G", "T", "P", "E">>

\* abs: uint64(-bytes) for a negative int64, uint64(bytes) otherwise
AbsBytes(bytes) == IF IsNegative64(bytes) THEN SubWrap(Zero64, bytes) ELSE bytes

\* BaseOf rounding the quotient up
BaseOf_RoundsUp(abs) == (Len64(abs) + 9) \div 10

\* base := uint(bits.Len64(abs) / 10)
BaseOf(abs) == Len64(abs) \div 10

\* what the call leaves behind when " KMGTPE"[base] is out of range: the
\* runtime panics and nothing is written
IndexPanic == "panic: runtime error: index out of range"

\* writeHumanBytes: "%d B" below 1024, else "%.3f %ciB" of the count
\* divided by 1 << (base*10), with the unit letter " KMGTPE"[base]
writeHumanBytes(bytes) ==
    LET abs  == AbsBytes(bytes)
        sign == IF IsNegative64(bytes) THEN "-" ELSE ""
        base == BaseOf(abs)
        t    == Thousandths(abs, base * 10)
    IN  IF ULess(abs, U64(1024))
        THEN sign \o ToString(abs[4]) \o " B"
        ELSE IF base + 1 > Len(Units)
        THEN IndexPanic
        ELSE sign \o ToString(t \div 1000) \o "." \o Pad3(t % 1000)
                  \o " " \o Units[base + 1] \o "iB"

(***************************************************************************)
(* Capability prober and sampler.                                          *)
(***************************************************************************)
\* what a read of an optional stat group can return on a platform: no
\* error, the error "not implemented yet", or any other error
ProbeErrors == {"nil", "not implemented yet", "other"}

\* a platform: whether process.NewProcess fails, and what the first read of
\* each optional stat group returns
Platforms ==
    [newProcessErr : {FALSE},
     times : ProbeErrors, ioCounters : ProbeErrors, memoryInfo : ProbeErrors]
    \cup
    [newProcessErr : {TRUE},
     times : {"nil"}, ioCounters : {"nil"}, memoryInfo : {"nil"}]

\* var c capabilities: the zero value
NoCapabilities ==
    [cpuTimeStat |-> FALSE, iOCounterStat |-> FALSE, memoryInfoStat |-> FALSE]

\* Available without the test for the sentinel
Available_Always(err) == TRUE

\* err == nil || err.Error() != "not implemented yet"
Available(err) == err = "nil" \/ err # "not implemented yet"

\* getCapabilities deciding the I/O counters by the probe of the CPU times
getCapabilities_Coupled(pf) ==
    [cpuTimeStat    |-> Available(pf.times),
     iOCounterStat  |-> Available(pf.times),
     memoryInfoStat |-> Available(pf.memoryInfo)]

getCapabilities(pf) ==
    [cpuTimeStat    |-> Available(pf.times),
     iOCounterStat  |-> Available(pf.ioCounters),
     memoryInfoStat |-> Available(pf.memoryInfo)]

\* ProbeCapabilities probing whether or not p was created
ProbeCapabilities_ProbesNil(pf) == getCapabilities(pf)

\* the lines "var c capabilities; p, err := process.NewProcess(...)" of
\* Window and Stream: getCapabilities runs only when p was created
ProbeCapabilities(pf) ==
    IF pf.newProcessErr THEN NoCapabilities ELSE getCapabilities(pf)

\* a reading of the metric source at level k: every group is represented
\* by one of its fields (goroutine, Alloc, RSS, User, ReadCount)
Reading(k) ==
    [goroutine |-> U64(k), Alloc |-> U64(1024 * k),
     RSS |-> U64(2048 * k), User |-> U64(k), ReadCount |-> U64(3 * k),
     failed |-> {}]

\* the optional stat groups, in the order getRecord reads them
OptionalGroups == <<"cpuTimeStat", "iOCounterStat", "memoryInfoStat">>

\* the groups whose capability is set
Enabled(caps) == {g \in {"cpuTimeStat", "iOCounterStat", "memoryInfoStat"} : caps[g]}

\* a reading at level k during which the reads of the groups in F return
\* an error and a nil pointer
FailedReading(k, F) == [Reading(k) EXCEPT !.failed = F]

\* the levels the metric source may report at its n-th sample (n >= 0):
\* the process has grown with its age, or has fallen back to its base
Levels(n) == {n + 1, 1}

\* the behaviours of the metric source: its level varies from sample to
\* sample, or it grows steadily, or reads of optional groups may fail
Sources == {"varying", "steady", "failing"}

\* the sets of groups whose reads may fail together in one sample: none,
\* the first group read, or every enabled group
FailChoices(caps) ==
    {{}, {"cpuTimeStat"} \cap Enabled(caps), Enabled(caps)}

\* what the n-th sample (n >= 0) can read from a source of kind src
Readings(src, n, caps) ==
    CASE src = "varying" -> {Reading(k) : k \in Levels(n)}
      [] src = "steady"  -> {Reading(n + 1)}
      [] src = "failing" -> {FailedReading(n + 1, F) : F \in FailChoices(caps)}

\* getRecord returning at the first failed read: the groups read after it
\* stay zero
getRecord_ReturnsEarly(caps, now, src) ==
    LET cpuFailed == caps.cpuTimeStat /\ "cpuTimeStat" \in src.failed
        ioFailed  == caps.iOCounterStat /\ "iOCounterStat" \in src.failed
    IN  [ts             |-> now,
         pprofPair      |-> src.goroutine,
         memStats       |-> src.Alloc,
         cpuTimeStat    |-> IF caps.cpuTimeStat /\ "cpuTimeStat" \notin src.failed
                            THEN src.User ELSE Zero64,
         iOCounterStat  |-> IF /\ caps.iOCounterStat
                               /\ "iOCounterStat" \notin src.failed
                               /\ ~cpuFailed
                            THEN src.ReadCount ELSE Zero64,
         memoryInfoStat |-> IF /\ caps.memoryInfoStat
                               /\ "memoryInfoStat" \notin src.failed
                               /\ ~cpuFailed /\ ~ioFailed
                            THEN src.RSS ELSE Zero64]

\* getRecord: the mandatory fields are always filled, an optional group is
\* read only when its capability is set and is the zero value otherwise,
\* as it is when the read returned a nil pointer
getRecord(caps, now, src) ==
    [ts             |-> now,
     pprofPair      |-> src.goroutine,
     memStats       |-> src.Alloc,
     cpuTimeStat    |-> IF caps.cpuTimeStat /\ "cpuTimeStat" \notin src.failed
                        THEN src.User ELSE Zero64,
     iOCounterStat  |-> IF caps.iOCounterStat /\ "iOCounterStat" \notin src.failed
                        THEN src.ReadCount ELSE Zero64,
     memoryInfoStat |-> IF caps.memoryInfoStat /\ "memoryInfoStat" \notin src.failed
                        THEN src.RSS ELSE Zero64]

\* the line getRecord logs for a failed read of group g
ReadFailure(g) ==
    CASE g = "cpuTimeStat"    -> "pprofrec: failed to get cpu time stats"
      [] g = "iOCounterStat"  -> "pprofrec: failed to get io counter stats"
      [] g = "memoryInfoStat" -> "pprofrec: failed to get memory info stats"

\* the lines one call of getRecord logs: one for each enabled group whose
\* read failed, in the order of the reads
getRecordLog(caps, src) ==
    LET failedAt(k) == caps[OptionalGroups[k]] /\ OptionalGroups[k] \in src.failed
        line(k) == IF failedAt(k) THEN <<ReadFailure(OptionalGroups[k])>> ELSE <<>>
    IN  line(1) \o line(2) \o line(3)

\* the lines logged for a failed Write and for a failed process.NewProcess
WriteFailure == "pprofrec: failed to write to response writer"
ProcessFailure == "pprofrec: failed to create process instance"

\* what a Write logs: nothing when it succeeded
WriteLog(ok) == IF ok THEN <<>> ELSE <<WriteFailure>>

\* what "p, err := process.NewProcess(...)" logs
ProcessLog(pf) == IF pf.newProcessErr THEN <<ProcessFailure>> ELSE <<>>

\* the calls of getCapabilities that line makes
ProbeCalls(pf) == IF pf.newProcessErr THEN 0 ELSE 1

(***************************************************************************)
(* Document head and rows.                                                 *)
(***************************************************************************)
\* the results a Write of the sink can have, given what was written so
\* far: true (no error) while the connection stands, false once a Write has
\* failed
WriteResults(written) ==
    IF \E k \in 1..Len(written) : written[k].kind # "flush" /\ ~written[k].ok
    THEN {FALSE}
    ELSE BOOLEAN

\* writeHead: the group header line (one th per column group) and the
\* column-name line (the names of each group's columns), both conditional
\* on the capabilities; ok is false when a Write of the sink failed, which
\* cuts the head short
writeHead(caps, ok) ==
    [kind   |-> "head",
     groups |-> <<"pprof.Lookup", "runtime.MemStats">>
                \o (IF caps.memoryInfoStat THEN <<"process.MemoryInfoStat">> ELSE <<>>)
                \o (IF caps.cpuTimeStat THEN <<"cpu.TimesStat">> ELSE <<>>)
                \o (IF caps.iOCounterStat THEN <<"process.IOCountersStat">> ELSE <<>>),
     names  |-> <<"pprof.Lookup", "runtime.MemStats">>
                \o (IF caps.memoryInfoStat THEN <<"process.MemoryInfoStat">> ELSE <<>>)
                \o (IF caps.cpuTimeStat THEN <<"cpu.TimesStat">> ELSE <<>>)
                \o (IF caps.iOCounterStat THEN <<"process.IOCountersStat">> ELSE <<>>),
     ok     |-> ok]

\* the column writers of each group; every group is represented by one field
writePprof(previous, current) ==
    [group |-> "pprof.Lookup",
     goroutine |-> writeIntCol(current, DeltaInt(previous, current))]

\* writeMemStats with the operands of the subtraction exchanged
writeMemStats_Swapped(previous, current) ==
    [group |-> "runtime.MemStats",
     Alloc |-> writeBytesCol(current, DeltaUint64(current, previous))]

writeMemStats(previous, current) ==
    [group |-> "runtime.MemStats",
     Alloc |-> writeBytesCol(current, DeltaUint64(previous, current))]

writeMemoryInfoStat(previous, current) ==
    [group |-> "process.MemoryInfoStat",
     RSS |-> writeBytesCol(current, DeltaUint64(previous, current))]

writeCpuTimeStat(previous, current) ==
    [group |-> "cpu.TimesStat",
     User |-> writeDuration(current, DeltaSeconds(previous, current))]

writeIOCounterStat(previous, current) ==
    [group |-> "process.IOCountersStat",
     ReadCount |-> writeUint64Col(current, DeltaUint64(previous, current))]

\* writeRow: the time cell of current, then one column group after the
\* other; ok is false when a Write failed, which abandons the rest of the
\* row.  previous is kept beside the cells to tell which pair was diffed.
writeRow(caps, previous, current, ok) ==
    [kind     |-> "row",
     time     |-> current.ts,
     previous |-> previous.ts,
     cols     |-> <<writePprof(previous.pprofPair, current.pprofPair),
                    writeMemStats(previous.memStats, current.memStats)>>
                  \o (IF caps.memoryInfoStat
                      THEN <<writeMemoryInfoStat(previous.memoryInfoStat,
                                                 current.memoryInfoStat)>>
                      ELSE <<>>)
                  \o (IF caps.cpuTimeStat
                      THEN <<writeCpuTimeStat(previous.cpuTimeStat,
                                              current.cpuTimeStat)>>
                      ELSE <<>>)
                  \o (IF caps.iOCounterStat
                      THEN <<writeIOCounterStat(previous.iOCounterStat,
                                                current.iOCounterStat)>>
                      ELSE <<>>),
     ok       |-> ok]

\* the column groups of a row, in the order written
RowGroups(row) == [k \in 1..Len(row.cols) |-> row.cols[k].group]

(***************************************************************************)
(* State.                                                                  *)
(***************************************************************************)
VARIABLES
    \* Window: construction
    opts,        \* WindowOpts after the defaults were applied
    platform,    \* the platform the handler runs on
    c,           \* capabilities of the Window handler
    \* Window: background sampler
    rs,          \* the shared buffer
    loop,        \* position of the sampler goroutine
    ctxDone,     \* ctx.Done() of the context given to Window is closed
    taken,       \* history: every Record the sampler took, in order
    \* Window: the request being served
    pc,          \* position of the handler
    i,           \* loop variable of the handler (Go index)
    lenSeen,     \* the value of len(rs) the handler read last
    previous,    \* first Record argument of the writeRow being evaluated
    out,         \* what was written to the ResponseWriter
    served,      \* number of requests started
    appended,    \* history: the sampler appended during this request
    atStart,     \* history: rs and loop as they were when this request began
    \* Stream: one request
    flusher,     \* the ResponseWriter implements http.Flusher
    spc,         \* position of the Stream handler
    sc,          \* capabilities probed by this request
    sprevious,   \* the variable previous of the handler
    sout,        \* what was written to the ResponseWriter
    sctxDone,    \* r.Context().Done() is closed
    staken,      \* history: every Record this request took, in order
    \* Diff renderer: one column pair
    dfield,      \* the field rendered
    dprevious,   \* previous.f
    dcurrent,    \* current.f
    dcol,        \* the column pair written, or NoCol
    \* writeHumanBytes: one call
    hbytes,      \* the argument bytes
    htext,       \* the text written, "" before the call
    \* what is fixed when the handlers are built
    given,       \* WindowOpts as the caller passed them to Window
    sgiven,      \* StreamOpts as the caller passed them to Stream
    sopts,       \* StreamOpts after the defaults were applied
    source,      \* behaviour of the metric source, one of Sources
    \* the process
    log,         \* the lines written by log.Printf
    probes,      \* history: number of calls of getCapabilities
    timers,      \* number of live tickers made by time.Tick
    \* rs as the words of a slice in memory
    mem          \* the header of rs, the backing arrays, and the words of
                 \* the header a goroutine is storing or has loaded

windowVars == <<opts, c, rs, loop, ctxDone, taken,
                pc, i, lenSeen, previous, out, served, appended, atStart>>
streamVars == <<flusher, spc, sc, sprevious, sout, sctxDone, staken>>
diffVars == <<dfield, dprevious, dcurrent, dcol>>
bytesVars == <<hbytes, htext>>
fixedVars == <<given, sgiven, sopts, source>>
memVars == <<mem>>
procVars == <<log, probes, timers>>
vars == <<platform, windowVars, streamVars, diffVars, bytesVars, fixedVars, memVars,
          procVars>>

(***************************************************************************)
(* Window: construction.                                                   *)
(***************************************************************************)
\* durations are held in whole seconds
DefaultWindow == 30
DefaultFrequency == 1

\* WindowDefaults replacing the window whether it is zero or not
WindowDefaults_OverridesWindow(o) ==
    [Window    |-> DefaultWindow,
     Frequency |-> IF o.Frequency = 0 THEN DefaultFrequency ELSE o.Frequency]

\* the two "if opts.X == time.Duration(0)" of Window
WindowDefaults(o) ==
    [Window    |-> IF o.Window = 0 THEN DefaultWindow ELSE o.Window,
     Frequency |-> IF o.Frequency = 0 THEN DefaultFrequency ELSE o.Frequency]

\* the "if opts.Frequency == time.Duration(0)" of Stream
StreamDefaultFrequency == 1
StreamDefaults(o) ==
    [Frequency |-> IF o.Frequency = 0 THEN StreamDefaultFrequency ELSE o.Frequency]

\* max := int((opts.Window / opts.Frequency) + 1)
WindowMax(o) == (o.Window \div o.Frequency) + 1

\* the options a caller passes: zero or positive durations, kept to those
\* whose buffer fills up within the samples of a run
WindowOptsChoices ==
    {o \in [Window : {0, 1, 2, 3}, Frequency : {0, 20}] :
        WindowMax(WindowDefaults(o)) < MaxTicks}

\* a Record that no sample produced: the value of an unset variable
NoRecord == getRecord(NoCapabilities, 0, Reading(0))

\* nothing is written: the value of dcol before the column writer ran
NoCol == [value |-> Zero64, color |-> "none", diff |-> Zero64]

\* the nil pointer: no backing array
NilPtr == [arr |-> 0, off |-> 0]

\* "var rs []record": the nil slice; no goroutine is storing or loading a
\* word of its header.  hdr is the header as it stands in memory, slice the
\* value the sampler computed last, heap the backing arrays allocated so
\* far.
NilMemory ==
    [hdr     |-> [ptr |-> NilPtr, len |-> 0],
     slice   |-> [ptr |-> NilPtr, len |-> 0, cap |-> 0],
     heap    |-> <<>>,
     pending |-> {},
     loaded  |-> {},
     regs    |-> [ptr |-> NilPtr, len |-> 0]]

\* the diff renderer is not exercised
DiffOff ==
    /\ hbytes = Zero64
    /\ htext = ""
    /\ dfield = "none"
    /\ dprevious = Zero64
    /\ dcurrent = Zero64
    /\ dcol = NoCol

\* no Stream request is being served
StreamOff ==
    /\ sgiven = [Frequency |-> 0]
    /\ sopts = StreamDefaults(sgiven)
    /\ flusher = FALSE
    /\ spc = "off"
    /\ sc = NoCapabilities
    /\ sprevious = NoRecord
    /\ sout = <<>>
    /\ sctxDone = FALSE
    /\ staken = <<>>

\* a platform on which the process handle and every optional group exist
FullPlatform ==
    [newProcessErr |-> FALSE,
     times |-> "nil", ioCounters |-> "nil", memoryInfo |-> "nil"]

\* the platforms on which a read succeeds or is not implemented, and the
\* one without a process handle
SimplePlatforms ==
    {pf \in Platforms :
        "other" \notin {pf.times, pf.ioCounters, pf.memoryInfo}}

\* Window(ctx, o) on platform pf, up to the start of the sampler
Constructed(o, pf) ==
    /\ given = o
    /\ opts = WindowDefaults(o)
    /\ platform = pf
    /\ c = ProbeCapabilities(pf)
    /\ probes = ProbeCalls(pf)
    /\ log = ProcessLog(pf)
    /\ timers = 1
    /\ StreamOff
    /\ DiffOff
    /\ rs = <<>>
    /\ loop = "waiting"
    /\ ctxDone = FALSE
    /\ taken = <<>>
    /\ pc = "idle"
    /\ i = 0
    /\ lenSeen = 0
    /\ previous = NoRecord
    /\ out = <<>>
    /\ served = 0
    /\ appended = FALSE
    /\ atStart = [rs |-> <<>>, loop |-> "off"]
    /\ mem = NilMemory

InitWindow ==
    /\ source = "varying"
    /\ \E o \in WindowOptsChoices : Constructed(o, FullPlatform)

\* the Window handler of a short window, on each of the simple platforms
InitWindowGating ==
    /\ source = "varying"
    /\ \E pf \in SimplePlatforms : Constructed([Window |-> 1, Frequency |-> 1], pf)

(***************************************************************************)
(* Window: the background sampler, "go func() { ... }()".                  *)
(***************************************************************************)
\* the period of the ticker each loop makes: time.Tick(opts.Frequency)
TickPeriod == opts.Frequency
StreamTickPeriod == sopts.Frequency

\* the samples a run takes: a steady source is followed until the buffer
\* has filled up and turned over
TickLimit ==
    IF source = "steady" THEN WindowMax(opts) + MaxTicks ELSE MaxTicks

\* Tick without the case <-ctx.Done()
Tick_IgnoresDone ==
    /\ loop = "waiting"
    /\ Len(taken) < TickLimit
    /\ loop' = "sampling"
    /\ UNCHANGED <<opts, platform, c, rs, ctxDone, taken,
                   pc, i, lenSeen, previous, out, served, appended, atStart>>
    /\ UNCHANGED procVars
    /\ UNCHANGED <<streamVars, diffVars, bytesVars, fixedVars, memVars>>

\* Tick with "break" in the case <-ctx.Done(): the select is left, the
\* loop is not
Tick_BreaksSelect ==
    /\ loop = "waiting"
    /\ IF ctxDone
       THEN loop' = "waiting"
       ELSE /\ Len(taken) < TickLimit
            /\ loop' = "sampling"
    /\ UNCHANGED <<opts, platform, c, rs, ctxDone, taken,
                   pc, i, lenSeen, previous, out, served, appended, atStart>>
    /\ UNCHANGED procVars
    /\ UNCHANGED <<streamVars, diffVars, bytesVars, fixedVars, memVars>>

\* a tick arrives and the select runs: return when ctx is done, else go on
\* to sample
Tick ==
    /\ loop = "waiting"
    /\ IF ctxDone
       THEN loop' = "exited"
       ELSE /\ Len(taken) < TickLimit
            /\ loop' = "sampling"
    /\ UNCHANGED <<opts, platform, c, rs, ctxDone, taken,
                   pc, i, lenSeen, previous, out, served, appended, atStart>>
    /\ UNCHANGED procVars
    /\ UNCHANGED <<streamVars, diffVars, bytesVars, fixedVars, memVars>>

\* AppendRecord with the length test off by one
AppendRecord_OffByOne(buf, max, r) ==
    IF Len(buf) <= max THEN Append(buf, r) ELSE Append(Tail(buf), r)

\* AppendRecord dropping the newest Record instead of the oldest
AppendRecord_DropsNewest(buf, max, r) ==
    IF Len(buf) < max THEN Append(buf, r)
    ELSE Append(SubSeq(buf, 1, Len(buf) - 1), r)

\* the default branch: append below max, else drop rs[0] and append
AppendRecord(buf, max, r) ==
    IF Len(buf) < max THEN Append(buf, r) ELSE Append(Tail(buf), r)

Sample ==
    /\ loop = "sampling"
    /\ \E src \in Readings(source, Len(taken), c) :
         LET r == getRecord(c, Len(taken) + 1, src)
         IN  /\ rs' = AppendRecord(rs, WindowMax(opts), r)
             /\ taken' = Append(taken, r)
             /\ log' = log \o getRecordLog(c, src)
    /\ loop' = "waiting"
    /\ appended' = (appended \/ pc \notin {"idle", "done"})
    /\ UNCHANGED <<probes, timers>>
    /\ UNCHANGED <<opts, platform, c, ctxDone, pc, i, lenSeen, previous,
                   out, served, atStart>>
    /\ UNCHANGED <<streamVars, diffVars, bytesVars, fixedVars, memVars>>

\* the caller cancels the context it gave to Window
Cancel ==
    /\ ~ctxDone
    /\ ctxDone' = TRUE
    /\ UNCHANGED <<opts, platform, c, rs, loop, taken,
                   pc, i, lenSeen, previous, out, served, appended, atStart>>
    /\ UNCHANGED procVars
    /\ UNCHANGED <<streamVars, diffVars, bytesVars, fixedVars, memVars>>

(***************************************************************************)
(* Window: the request handler.  Every evaluation of len(rs) and of an     *)
(* element rs[k] is a read of the shared variable, and the sampler may run *)
(* between any two of them: nothing synchronises the two goroutines.       *)
(***************************************************************************)
ReqUnchanged ==
    /\ UNCHANGED <<opts, platform, c, rs, loop, ctxDone, taken>>
    /\ UNCHANGED <<probes, timers>>
    /\ UNCHANGED <<streamVars, diffVars, bytesVars, fixedVars, memVars>>

\* ReqStart with a handler that empties the buffer it is about to render
ReqStart_ClearsBuffer ==
    /\ pc \in {"idle", "done"}
    /\ served < MaxRequests
    /\ pc' = "head"
    /\ out' = <<>>
    /\ served' = served + 1
    /\ appended' = FALSE
    /\ atStart' = [rs |-> rs, loop |-> loop]
    /\ i' = 0
    /\ lenSeen' = 0
    /\ previous' = NoRecord
    /\ rs' = <<>>
    /\ UNCHANGED <<opts, platform, c, loop, ctxDone, taken, log, probes, timers>>
    /\ UNCHANGED <<streamVars, diffVars, bytesVars, fixedVars, memVars>>

\* a request arrives
ReqStart ==
    /\ pc \in {"idle", "done"}
    /\ served < MaxRequests
    /\ pc' = "head"
    /\ out' = <<>>
    /\ served' = served + 1
    /\ appended' = FALSE
    /\ atStart' = [rs |-> rs, loop |-> loop]
    /\ i' = 0
    /\ lenSeen' = 0
    /\ previous' = NoRecord
    /\ UNCHANGED log
    /\ ReqUnchanged

\* err := writeHead(w, c); a failed write ends the request
ReqHead ==
    /\ pc = "head"
    /\ \E ok \in WriteResults(out) :
         /\ out' = Append(out, writeHead(c, ok))
         /\ log' = log \o WriteLog(ok)
         /\ pc' = IF ok THEN "case0" ELSE "done"
    /\ UNCHANGED <<i, lenSeen, previous, served, appended, atStart>>
    /\ ReqUnchanged

\* case len(rs) == 0
ReqCase0 ==
    /\ pc = "case0"
    /\ lenSeen' = Len(rs)
    /\ pc' = IF Len(rs) = 0 THEN "done" ELSE "case1"
    /\ UNCHANGED <<i, previous, out, served, appended, atStart, log>>
    /\ ReqUnchanged

\* ReqCase1 taking the single-Record branch for two Records as well
ReqCase1_UpToTwo ==
    /\ pc = "case1"
    /\ lenSeen' = Len(rs)
    /\ pc' = IF Len(rs) <= 2 THEN "single" ELSE "default"
    /\ i' = 1
    /\ UNCHANGED <<previous, out, served, appended, atStart, log>>
    /\ ReqUnchanged

\* case len(rs) == 1, else default
ReqCase1 ==
    /\ pc = "case1"
    /\ lenSeen' = Len(rs)
    /\ pc' = IF Len(rs) = 1 THEN "single" ELSE "default"
    /\ i' = 1
    /\ UNCHANGED <<previous, out, served, appended, atStart, log>>
    /\ ReqUnchanged

\* the first argument of writeRow: rs[0] in the cases "single" and
\* "default", rs[i-1] in the loop; an index beyond len(rs) panics
ReqReadPrevious ==
    /\ pc \in {"single", "default", "body"}
    /\ IF i - 1 < Len(rs)
       THEN /\ previous' = rs[(i - 1) + 1]
            /\ pc' = CASE pc = "single"  -> "single2"
                        [] pc = "default" -> "default2"
                        [] pc = "body"    -> "body2"
       ELSE /\ pc' = "panic"
            /\ UNCHANGED previous
    /\ UNCHANGED <<i, lenSeen, out, served, appended, atStart, log>>
    /\ ReqUnchanged

\* ReqWriteRow ending the request when the row could not be written
ReqWriteRow_StopsOnError ==
    /\ pc \in {"single2", "default2", "body2"}
    /\ LET k == IF pc = "single2" THEN 0 ELSE i
       IN  IF k < Len(rs)
           THEN /\ \E ok \in WriteResults(out) :
                     /\ out' = Append(out, writeRow(c, previous, rs[k + 1], ok))
                     /\ log' = log \o WriteLog(ok)
                     /\ pc' = IF pc = "single2" \/ ~ok THEN "done" ELSE "loop"
                /\ i' = i + 1
           ELSE /\ pc' = "panic"
                /\ UNCHANGED <<out, i, log>>
    /\ UNCHANGED <<lenSeen, previous, served, appended, atStart>>
    /\ ReqUnchanged

\* the second argument of writeRow, rs[0] in the case "single", rs[1] in
\* the case "default", rs[i] in the loop, and then the call of writeRow
ReqWriteRow ==
    /\ pc \in {"single2", "default2", "body2"}
    /\ LET k == IF pc = "single2" THEN 0 ELSE i
       IN  IF k < Len(rs)
           THEN /\ \E ok \in WriteResults(out) :
                     /\ out' = Append(out, writeRow(c, previous, rs[k + 1], ok))
                     /\ log' = log \o WriteLog(ok)
                /\ pc' = IF pc = "single2" THEN "done" ELSE "loop"
                /\ i' = i + 1
           ELSE /\ pc' = "panic"
                /\ UNCHANGED <<out, i, log>>
    /\ UNCHANGED <<lenSeen, previous, served, appended, atStart>>
    /\ ReqUnchanged

\* for i := 2; i < len(rs); i++
ReqLoop ==
    /\ pc = "loop"
    /\ lenSeen' = Len(rs)
    /\ pc' = IF i < Len(rs) THEN "body" ELSE "done"
    /\ UNCHANGED <<i, previous, out, served, appended, atStart, log>>
    /\ ReqUnchanged

(***************************************************************************)
(* Stream: one request.                                                    *)
(***************************************************************************)
\* no Window handler was constructed
WindowOff ==
    /\ given = [Window |-> 0, Frequency |-> 0]
    /\ opts = WindowDefaults(given)
    /\ c = NoCapabilities
    /\ rs = <<>>
    /\ loop = "off"
    /\ ctxDone = FALSE
    /\ taken = <<>>
    /\ pc = "off"
    /\ i = 0
    /\ lenSeen = 0
    /\ previous = NoRecord
    /\ out = <<>>
    /\ served = 0
    /\ appended = FALSE
    /\ atStart = [rs |-> <<>>, loop |-> "off"]
    /\ mem = NilMemory

\* Stream(o) was called and a request arrives
StreamBuilt(o) ==
    /\ sgiven = o
    /\ sopts = StreamDefaults(o)
    /\ WindowOff
    /\ DiffOff
    /\ log = <<>>
    /\ probes = 0
    /\ timers = 0

InitStream ==
    /\ platform \in Platforms
    /\ source = "varying"
    /\ StreamBuilt([Frequency |-> 0])
    /\ flusher \in BOOLEAN
    /\ spc = "start"
    /\ sc = NoCapabilities
    /\ sprevious = NoRecord
    /\ sout = <<>>
    /\ sctxDone = FALSE
    /\ staken = <<>>

\* http.NotFound(w, r): status 404 and the text "404 page not found"
NotFound == [kind |-> "notfound", status |-> 404]

\* flusher.Flush()
Flush == [kind |-> "flush"]

\* StreamServe without the test for http.Flusher
StreamServe_IgnoresFlusher ==
    /\ spc = "start"
    /\ sc' = ProbeCapabilities(platform)
    /\ probes' = probes + ProbeCalls(platform)
    /\ \E ok \in WriteResults(sout),
          src \in Readings(source, Len(staken), sc') :
         LET r == getRecord(sc', Len(staken) + 1, src)
         IN  /\ sout' = sout \o <<writeHead(sc', ok), Flush>>
             /\ log' = log \o ProcessLog(platform) \o WriteLog(ok)
                           \o getRecordLog(sc', src)
             /\ sprevious' = r
             /\ staken' = Append(staken, r)
             /\ timers' = timers + 1
             /\ spc' = "waiting"
    /\ UNCHANGED <<flusher, sctxDone, platform>>
    /\ UNCHANGED <<windowVars, diffVars, bytesVars, fixedVars, memVars>>

\* the handler up to the tick loop: probe the capabilities, test the sink
\* for http.Flusher, write and flush the head, take the initial Record
StreamServe ==
    /\ spc = "start"
    /\ sc' = ProbeCapabilities(platform)
    /\ probes' = probes + ProbeCalls(platform)
    /\ IF ~flusher
       THEN /\ sout' = Append(sout, NotFound)
            /\ log' = log \o ProcessLog(platform)
            /\ spc' = "returned"
            /\ UNCHANGED <<sprevious, staken, timers>>
       ELSE \E ok \in WriteResults(sout),
                src \in Readings(source, Len(staken), sc') :
              LET r == getRecord(sc', Len(staken) + 1, src)
              IN  /\ sout' = sout \o <<writeHead(sc', ok), Flush>>
                  /\ log' = log \o ProcessLog(platform) \o WriteLog(ok)
                                \o getRecordLog(sc', src)
                  /\ sprevious' = r
                  /\ staken' = Append(staken, r)
                  /\ timers' = timers + 1
                  /\ spc' = "waiting"
    /\ UNCHANGED <<flusher, sctxDone, platform>>
    /\ UNCHANGED <<windowVars, diffVars, bytesVars, fixedVars, memVars>>

\* StreamTick without the case <-r.Context().Done()
StreamTick_IgnoresDone ==
    /\ spc = "waiting"
    /\ Len(staken) <= MaxTicks
    /\ spc' = "sampling"
    /\ UNCHANGED <<flusher, sc, sprevious, sout, sctxDone, staken, platform>>
    /\ UNCHANGED procVars
    /\ UNCHANGED <<windowVars, diffVars, bytesVars, fixedVars, memVars>>

\* a tick arrives and the select runs: return when the request's context
\* is done, else go on to the default branch
StreamTick ==
    /\ spc = "waiting"
    /\ IF sctxDone
       THEN spc' = "returned"
       ELSE /\ Len(staken) <= MaxTicks
            /\ spc' = "sampling"
    /\ UNCHANGED <<flusher, sc, sprevious, sout, sctxDone, staken, platform>>
    /\ UNCHANGED procVars
    /\ UNCHANGED <<windowVars, diffVars, bytesVars, fixedVars, memVars>>

\* StreamRow returning when the row could not be written
StreamRow_StopsOnError ==
    /\ spc = "sampling"
    /\ \E ok \in WriteResults(sout),
          src \in Readings(source, Len(staken), sc) :
         LET current == getRecord(sc, Len(staken) + 1, src)
         IN  /\ sout' = sout \o <<writeRow(sc, sprevious, current, ok), Flush>>
             /\ log' = log \o getRecordLog(sc, src) \o WriteLog(ok)
             /\ sprevious' = current
             /\ staken' = Append(staken, current)
             /\ spc' = IF ok THEN "waiting" ELSE "returned"
    /\ UNCHANGED <<flusher, sc, sctxDone, platform>>
    /\ UNCHANGED <<probes, timers>>
    /\ UNCHANGED <<windowVars, diffVars, bytesVars, fixedVars, memVars>>

\* StreamRow without previous = current
StreamRow_KeepsPrevious ==
    /\ spc = "sampling"
    /\ \E ok \in WriteResults(sout),
          src \in Readings(source, Len(staken), sc) :
         LET current == getRecord(sc, Len(staken) + 1, src)
         IN  /\ sout' = sout \o <<writeRow(sc, sprevious, current, ok), Flush>>
             /\ log' = log \o getRecordLog(sc, src) \o WriteLog(ok)
             /\ staken' = Append(staken, current)
    /\ spc' = "waiting"
    /\ UNCHANGED <<flusher, sc, sprevious, sctxDone, platform>>
    /\ UNCHANGED <<probes, timers>>
    /\ UNCHANGED <<windowVars, diffVars, bytesVars, fixedVars, memVars>>

\* the default branch: current = getRecord(...), writeRow, Flush,
\* previous = current
StreamRow ==
    /\ spc = "sampling"
    /\ \E ok \in WriteResults(sout),
          src \in Readings(source, Len(staken), sc) :
         LET current == getRecord(sc, Len(staken) + 1, src)
         IN  /\ sout' = sout \o <<writeRow(sc, sprevious, current, ok), Flush>>
             /\ log' = log \o getRecordLog(sc, src) \o WriteLog(ok)
             /\ sprevious' = current
             /\ staken' = Append(staken, current)
    /\ spc' = "waiting"
    /\ UNCHANGED <<flusher, sc, sctxDone, platform>>
    /\ UNCHANGED <<probes, timers>>
    /\ UNCHANGED <<windowVars, diffVars, bytesVars, fixedVars, memVars>>

\* the client goes away or the request is cancelled
StreamCancel ==
    /\ spc # "off"
    /\ ~sctxDone
    /\ sctxDone' = TRUE
    /\ UNCHANGED <<flusher, spc, sc, sprevious, sout, staken, platform>>
    /\ UNCHANGED procVars
    /\ UNCHANGED <<windowVars, diffVars, bytesVars, fixedVars, memVars>>

\* the ticker of time.Tick is never stopped by the loop that made it: it
\* stays live when the loop returns, and only a runtime that collects
\* unreferenced tickers takes it away, some time after the loop is gone
TickerCollected ==
    /\ loop = "exited" \/ spc = "returned"
    /\ timers > 0
    /\ timers' = timers - 1
    /\ UNCHANGED <<platform, windowVars, streamVars, diffVars, bytesVars,
                   fixedVars, memVars, log, probes>>

NextStream ==
    \/ StreamServe
    \/ StreamTick
    \/ StreamRow
    \/ StreamCancel

SpecStream == InitStream /\ [][NextStream]_vars

Next ==
    \/ Tick
    \/ Sample
    \/ Cancel
    \/ ReqStart
    \/ ReqHead
    \/ ReqCase0
    \/ ReqCase1
    \/ ReqReadPrevious
    \/ ReqWriteRow
    \/ ReqLoop

Spec == InitWindow /\ [][Next]_vars

(***************************************************************************)
(* Diff renderer: one column pair of writePprof, writeMemStats and         *)
(* writeCpuTimeStat, for a field of each type.                             *)
(***************************************************************************)
\* no handler runs
HandlersOff ==
    /\ platform = FullPlatform
    /\ source = "varying"
    /\ WindowOff
    /\ StreamOff
    /\ log = <<>>
    /\ probes = 0
    /\ timers = 0

\* fields held in 32 bits and fields held in 64 bits
Uint32Fields == {"NumGC", "NumForcedGC"}
Uint64Fields == {"goroutine", "Alloc", "Mallocs", "LastGC", "PauseTotalNs", "User"}

\* values of a uint32 field: 0, 1, 2^31 and 2^32 - 1
Uint32Values == {U32(0), U32(1), <<HalfLimb, 0>>, <<Limb - 1, Limb - 1>>}

\* values of a 64-bit field as the runtime reports them, below 2^63:
\* 0, 1, 1024 and 2^63 - 1
Uint64Values == {U64(0), U64(1), U64(1024), maxDuration}

InitDiff ==
    /\ HandlersOff
    /\ hbytes = Zero64
    /\ htext = ""
    /\ \/ dfield \in Uint32Fields /\ dprevious \in Uint32Values /\ dcurrent \in Uint32Values
       \/ dfield \in Uint64Fields /\ dprevious \in Uint64Values /\ dcurrent \in Uint64Values
    /\ dcol = NoCol

\* the call that writes the column pair of field f, as writePprof,
\* writeMemStats and writeCpuTimeStat make it
ColumnOf(f, p, cur) ==
    CASE f = "goroutine"    -> writeIntCol(cur, DeltaInt(p, cur))
      [] f = "Alloc"        -> writeBytesCol(cur, DeltaUint64(p, cur))
      [] f = "Mallocs"      -> writeUint64Col(cur, DeltaUint64(p, cur))
      [] f = "LastGC"       -> writeTime(cur, DeltaLastGC(p, cur))
      [] f = "PauseTotalNs" -> writeDuration(cur, DeltaDurationNs(p, cur))
      [] f = "NumGC"        -> writeUint64Col(Int64FromUint32(cur), DeltaUint32(p, cur))
      [] f = "NumForcedGC"  -> writeUint64Col(Int64FromUint32(cur), DeltaUint32(p, cur))
      [] f = "User"         -> writeDuration(cur, DeltaSeconds(p, cur))

RenderColumn ==
    /\ dfield # "none"
    /\ dcol = NoCol
    /\ dcol' = ColumnOf(dfield, dprevious, dcurrent)
    /\ UNCHANGED <<dfield, dprevious, dcurrent, platform, windowVars, streamVars,
                   bytesVars, fixedVars, memVars, procVars>>

NextDiff == RenderColumn

SpecDiff == InitDiff /\ [][NextDiff]_vars

\* both handlers, one of them per behaviour, over the platforms
InitGating == InitWindowGating \/ InitStream

NextGating == Next \/ NextStream

SpecGating == InitGating /\ [][NextGating]_vars

(***************************************************************************)
(* Properties of the Window buffer.                                        *)
(***************************************************************************)
Min(a, b) == IF a < b THEN a ELSE b

\* floor(window / frequency) + 1 for the configured options
Capacity == (opts.Window \div opts.Frequency) + 1

\* the rows of a response and the pair of samples each of them diffs
Rows(written) == SelectSeq(written, LAMBDA e : e.kind = "row")
Pairs(written) ==
    [k \in 1..Len(Rows(written)) |->
        <<Rows(written)[k].previous, Rows(written)[k].time>>]

\* every Write of the response succeeded
AllOk(written) ==
    \A k \in 1..Len(written) : written[k].kind = "flush" \/ written[k].ok

\* the request has returned after writing the head and every row
Rendered == pc = "done" /\ out # <<>> /\ AllOk(out)

\* C1: the buffer never holds more than floor(window/frequency) + 1
\* Records, and at capacity every append leaves the length at capacity by
\* removing exactly one Record.
C1_BufferBounded ==
    [][/\ Len(rs) <= Capacity
       /\ Len(rs') <= Capacity
       /\ (Len(rs) = Capacity /\ taken' # taken) =>
             /\ Len(rs') = Capacity
             /\ Cardinality({k \in 1..Len(rs) :
                     \A j \in 1..Len(rs') : rs'[j] # rs[k]}) = 1]_vars

\* the buffer is full and a Record has been evicted
C1_Witness == Len(rs) = Capacity /\ Len(taken) > Capacity /\ Capacity > 1

\* C2: after n samples the buffer is the last min(n, capacity) samples, in
\* the order in which they were taken.
C2_BufferIsLastSamples ==
    rs = SubSeq(taken, Len(taken) - Min(Len(taken), Capacity) + 1, Len(taken))

\* window = 3s, frequency = 1s: after the fifth sample the buffer is s2..s5
C2_Witness ==
    /\ opts = [Window |-> 3, Frequency |-> 1]
    /\ Len(taken) = 5
    /\ [k \in 1..Len(rs) |-> rs[k].ts] = <<2, 3, 4, 5>>

\* the pairs of a render as the handler forms them: none for an empty
\* buffer, the self-diff of the only Record, else the n-1 neighbouring pairs
NeighbourPairs(buf) ==
    IF Len(buf) = 0 THEN <<>>
    ELSE IF Len(buf) = 1 THEN << <<buf[1].ts, buf[1].ts>> >>
    ELSE [k \in 1..Len(buf) - 1 |-> <<buf[k].ts, buf[k + 1].ts>>]

\* one pair per Record: the self-diff of buffer[0], then the neighbours
BaselineAndNeighbourPairs(buf) ==
    [k \in 1..Len(buf) |->
        IF k = 1 THEN <<buf[1].ts, buf[1].ts>> ELSE <<buf[k - 1].ts, buf[k].ts>>]

\* C3 as stated: a buffer of n Records is rendered as the head and n rows,
\* the first row diffing buffer[0] against itself and row i diffing
\* buffer[i-1] against buffer[i].
C3_OneRowPerRecord ==
    (Rendered /\ ~appended) =>
        /\ out[1].kind = "head"
        /\ Pairs(out) = BaselineAndNeighbourPairs(atStart.rs)

\* C3 amended: the head is followed by no row for an empty buffer, by the
\* self-diff row for a buffer of one Record, and by the n-1 rows of
\* neighbouring Records, without a baseline row, for n >= 2 Records; the
\* number of rows follows the length the handler read last.
C3_RowsOfBuffer ==
    /\ (pc = "done" /\ out[1].ok) =>
          /\ out[1].kind = "head"
          /\ Len(Rows(out)) = Len(out) - 1
          /\ Len(Rows(out)) = IF lenSeen <= 1 THEN lenSeen ELSE lenSeen - 1
    /\ (Rendered /\ ~appended) => Pairs(out) = NeighbourPairs(atStart.rs)

\* a buffer of three Records was rendered as two rows
C3_Witness ==
    /\ Rendered
    /\ ~appended
    /\ Len(atStart.rs) = 3
    /\ Len(Rows(out)) = 2
    /\ Pairs(out)[1][1] # Pairs(out)[1][2]

\* C4: without an interleaved append, a buffer of n >= 2 Records is
\* rendered as exactly the rows diff(buffer[i-1], buffer[i]), i = 1..n-1,
\* in buffer order, and an Alloc that grew is styled positive.
C4_NeighbourRows ==
    (Rendered /\ ~appended /\ Len(atStart.rs) >= 2) =>
        LET buf == atStart.rs
            rws == Rows(out)
        IN  /\ Len(rws) = Len(buf) - 1
            /\ \A k \in 1..Len(rws) :
                 /\ rws[k].previous = buf[k].ts
                 /\ rws[k].time = buf[k + 1].ts
                 /\ rws[k].cols[2].Alloc.value = buf[k + 1].memStats
                 /\ ULess(buf[k].memStats, buf[k + 1].memStats) =>
                       rws[k].cols[2].Alloc.color = "green"

\* a full buffer of capacity 4 with growing Alloc: three rows, all positive
C4_Witness ==
    /\ Rendered
    /\ ~appended
    /\ Capacity = 4
    /\ Len(atStart.rs) = 4
    /\ atStart.rs[1].ts = 2
    /\ \A k \in 1..3 : ULess(atStart.rs[k].memStats, atStart.rs[k + 1].memStats)
    /\ Len(Rows(out)) = 3
    /\ \A k \in 1..3 : Rows(out)[k].cols[2].Alloc.color = "green"

\* C5: whatever the sampler does during a render, every row pairs two
\* Records that were appended one after the other (or is the lone baseline
\* row), and each row starts from the Record the row before it ended with.
C5_ConsistentSnapshot ==
    LET prs == Pairs(out)
    IN  /\ \A k \in 1..Len(prs) :
             \/ prs[k][2] = prs[k][1] + 1
             \/ Len(prs) = 1 /\ prs[k][2] = prs[k][1]
        /\ \A k \in 1..Len(prs) - 1 : prs[k][2] = prs[k + 1][1]

\* C10: once ctx is done, the first tick the sampler handles makes it exit
\* without sampling; after the exit the buffer never changes, and a request
\* that arrives afterwards renders the Records left in the buffer.
C10_CancelledLoopExits ==
    /\ [][/\ (loop = "waiting" /\ ctxDone /\ loop' # loop) =>
              (loop' = "exited" /\ rs' = rs /\ taken' = taken)
          /\ loop = "exited" =>
              (loop' = "exited" /\ rs' = rs /\ taken' = taken)]_vars
    /\ []((atStart.loop = "exited" /\ Rendered) =>
            Pairs(out) = NeighbourPairs(rs))

\* a request that arrived after the sampler's exit has rendered the buffer
C10_Witness ==
    /\ loop = "exited"
    /\ atStart.loop = "exited"
    /\ Rendered
    /\ Len(rs) >= 2
    /\ Len(Rows(out)) = Len(rs) - 1

(***************************************************************************)
(* Properties of the Stream handler.                                       *)
(***************************************************************************)
\* C7: with a sink that can flush, the response is the head and a flush,
\* then for each tick one row and a flush; row j diffs the j-th Record taken
\* against the next one, the first Record being the initial one, and
\* previous is the Record taken last.
C7_StreamRows ==
    (flusher /\ spc \in {"waiting", "sampling", "returned"}) =>
        /\ Len(sout) = 2 * Len(staken)
        /\ sout[1].kind = "head"
        /\ sout[2].kind = "flush"
        /\ \A j \in 1..Len(staken) - 1 :
             /\ sout[2 * j + 1].kind = "row"
             /\ sout[2 * j + 1].previous = staken[j].ts
             /\ sout[2 * j + 1].time = staken[j + 1].ts
             /\ sout[2 * j + 1].previous # sout[2 * j + 1].time
             /\ sout[2 * j + 1].cols[2].Alloc.value = staken[j + 1].memStats
             /\ sout[2 * j + 1].cols[2].Alloc.diff =
                   SubWrap(staken[j + 1].memStats, staken[j].memStats)
             /\ sout[2 * j + 2].kind = "flush"
        /\ sprevious = staken[Len(staken)]

\* three ticks have been served
C7_Witness ==
    /\ flusher
    /\ spc = "waiting"
    /\ Len(staken) = 4
    /\ Len(Rows(sout)) = 3
    /\ AllOk(sout)

\* C8: with a sink that cannot flush, the handler answers 404 and returns
\* at once: no head, no sample, no tick loop, no row.
C8_NotFoundWithoutFlusher ==
    (~flusher /\ spc # "start") =>
        /\ spc = "returned"
        /\ Len(sout) = 1
        /\ sout[1].kind = "notfound"
        /\ sout[1].status = 404
        /\ staken = <<>>
        /\ sprevious = NoRecord

\* a request on a sink that cannot flush has returned
C8_Witness == ~flusher /\ spc = "returned" /\ sout # <<>>

(***************************************************************************)
(* Properties of the capabilities.                                         *)
(***************************************************************************)
\* the column groups of a platform: the two mandatory ones, then memory
\* info, CPU time and I/O counters, each unless its probe reported the
\* sentinel or no process handle exists
GroupsOf(pf) ==
    <<"pprof.Lookup", "runtime.MemStats">>
    \o (IF ~pf.newProcessErr /\ pf.memoryInfo # "not implemented yet"
        THEN <<"process.MemoryInfoStat">> ELSE <<>>)
    \o (IF ~pf.newProcessErr /\ pf.times # "not implemented yet"
        THEN <<"cpu.TimesStat">> ELSE <<>>)
    \o (IF ~pf.newProcessErr /\ pf.ioCounters # "not implemented yet"
        THEN <<"process.IOCountersStat">> ELSE <<>>)

\* the head and the rows of a response show exactly the groups gs
ShowsGroups(written, gs) ==
    \A k \in 1..Len(written) :
        /\ written[k].kind = "head" =>
              (written[k].groups = gs /\ written[k].names = gs)
        /\ written[k].kind = "row" => RowGroups(written[k]) = gs

\* C9: a group whose probe returned the sentinel is in no head and in no
\* row of the handler; the head and every row show the same groups, those
\* of the capability set, in the order memory info, CPU time, I/O counters.
C9_CapabilityGating ==
    /\ ShowsGroups(out, GroupsOf(platform))
    /\ ShowsGroups(sout, GroupsOf(platform))

\* CPU time is not implemented, the other groups are shown in two rows
C9_Witness ==
    /\ platform.times = "not implemented yet"
    /\ platform.memoryInfo = "nil"
    /\ platform.ioCounters = "other"
    /\ Len(Rows(sout)) = 2
    /\ RowGroups(Rows(sout)[2]) =
          <<"pprof.Lookup", "runtime.MemStats",
            "process.MemoryInfoStat", "process.IOCountersStat">>

(***************************************************************************)
(* Properties of the diff renderer.                                        *)
(***************************************************************************)
\* the style the comparison of the two field values calls for
StyleOf(p, cur) ==
    IF cur = p THEN "gray" ELSE IF ULess(p, cur) THEN "green" ELSE "red"

\* C6: the delta cell of every field is neutral when current = previous,
\* positive when current > previous and negative when current < previous,
\* whatever the type of the field.
C6_ClassifiedBySign ==
    dcol # NoCol => dcol.color = StyleOf(dprevious, dcurrent)

(***************************************************************************)
(* Cancellation of a Stream request.                                       *)
(***************************************************************************)
\* C11: the first tick the Stream handler processes after its request was
\* cancelled makes it return, without taking a sample and without writing
\* or flushing; once returned it stays returned and writes nothing more;
\* a row written after the cancellation is the one whose tick was taken
\* before it, so at most one such row appears.
C11_CancelledStreamReturns ==
    [][/\ (spc = "waiting" /\ sctxDone /\ spc' # spc)
            => /\ spc' = "returned"
               /\ sout' = sout
               /\ staken' = staken
               /\ sprevious' = sprevious
       /\ spc = "returned"
            => /\ spc' = "returned"
               /\ sout' = sout
               /\ staken' = staken
       /\ (sctxDone /\ Rows(sout') # Rows(sout))
            => /\ spc = "sampling"
               /\ spc' = "waiting"
               /\ Len(Rows(sout')) = Len(Rows(sout)) + 1]_vars

\* a session that wrote two rows or more, was cancelled and has returned
\* before the samples of the run were used up
C11_Witness ==
    /\ flusher
    /\ sctxDone
    /\ spc = "returned"
    /\ Len(Rows(sout)) >= 2
    /\ Len(staken) <= MaxTicks

(***************************************************************************)
(* The byte formatter, called on its own.                                  *)
(***************************************************************************)
\* 2^k as a 64-bit word, k = 0..63
Pow2(k) == [j \in 1..4 |-> IF 4 - j = k \div 16 THEN 2 ^ (k % 16) ELSE 0]

\* -x as an int64
Negated(x) == SubWrap(Zero64, x)

\* byte counts around every power of two, some between them, their
\* negatives, and math.MinInt64, which is Pow2(63)
Magnitudes ==
    {Pow2(k) : k \in 0..62}
    \cup {SubWrap(Pow2(k), U64(1)) : k \in 0..63}
    \cup {U64(1025), U64(1088), U64(1536), U64(2048 + 512), U64(65535)}

ByteValues ==
    Magnitudes \cup {Negated(x) : x \in Magnitudes} \cup {Pow2(63)}

InitBytes ==
    /\ HandlersOff
    /\ dfield = "none"
    /\ dprevious = Zero64
    /\ dcurrent = Zero64
    /\ dcol = NoCol
    /\ hbytes \in ByteValues
    /\ htext = ""

\* one call writeHumanBytes(w, bytes)
FormatBytes ==
    /\ htext = ""
    /\ htext' = writeHumanBytes(hbytes)
    /\ UNCHANGED <<hbytes, platform, windowVars, streamVars, diffVars,
                   fixedVars, memVars, procVars>>

NextBytes == FormatBytes

SpecBytes == InitBytes /\ [][NextBytes]_vars

\* the magnitude of a byte count in units of 1/1024 of 2^s, rounded down
\* (s >= 10, the quotient below 2^21)
Binary1024ths(bytes, s) == ShiftedFrom(AbsBytes(bytes), s - 10, 0)

\* the unit letters in the order of their tiers
UnitLetters == <<" ", "K", "M", "G", "T", "P", "E">>

\* the text of a magnitude of t thousandths in the unit of a tier
TextOf(negative, t, tier) ==
    (IF negative THEN "-" ELSE "") \o ToString(t \div 1000) \o "."
    \o (IF t % 1000 < 10 THEN "00" ELSE IF t % 1000 < 100 THEN "0" ELSE "")
    \o ToString(t % 1000) \o " " \o UnitLetters[tier + 1] \o "iB"

\* C12: a byte count of magnitude below 1024 is written as its signed
\* decimal value followed by " B"; any other one is written as the count
\* divided by 1024^tier with exactly three decimals, a space, the unit
\* letter of the tier out of (space, K, M, G, T, P, E) and "iB", where
\* tier = floor(bitlength(|b|) / 10).  0 gives "0 B", 1023 "1023 B",
\* 1024 "1.000 KiB", 1048576 "1.000 MiB" and -2048 "-2.000 KiB".
C12_HumanBytes ==
    htext # "" =>
        LET negative == IsNegative64(hbytes)
            small    == ULess(AbsBytes(hbytes), U64(1024))
            tier     == Len64(AbsBytes(hbytes)) \div 10
            t        == Thousandths(AbsBytes(hbytes), 10 * tier)
            b1024    == Binary1024ths(hbytes, 10 * tier)
        IN  /\ hbytes = U64(0) => htext = "0 B"
            /\ hbytes = U64(1023) => htext = "1023 B"
            /\ hbytes = U64(1024) => htext = "1.000 KiB"
            /\ hbytes = Pow2(20) => htext = "1.000 MiB"
            /\ hbytes = Negated(U64(2048)) => htext = "-2.000 KiB"
            /\ small =>
                 htext = (IF negative THEN "-" ELSE "")
                         \o ToString(AbsBytes(hbytes)[4]) \o " B"
            /\ ~small =>
                 /\ tier \in 1..6
                 /\ htext = TextOf(negative, t, tier)
                 \* t/1000 is the quotient |b| / 1024^tier, to the third decimal
                 /\ 1000 * b1024 - 512 <= 1024 * t
                 /\ 1024 * t <= 1000 * (b1024 + 1) + 512

\* 1024, 1048576 or -2048 has been formatted, in the branch with a unit
\* letter
C12_Witness ==
    /\ htext # ""
    /\ hbytes \in {U64(1024), Pow2(20), Negated(U64(2048))}
    /\ htext \in {"1.000 KiB", "1.000 MiB", "-2.000 KiB"}

(***************************************************************************)
(* The capability prober.                                                  *)
(***************************************************************************)
\* a handler has passed the lines that create the process handle and probe
HasProbed == loop # "off" \/ spc \notin {"off", "start"}

\* the capabilities that handler holds
ProbedCapabilities == IF loop # "off" THEN c ELSE sc

\* each group is available iff its own probe read did not return the
\* sentinel
DecidedByOwnProbe(caps) ==
    /\ caps.cpuTimeStat <=> platform.times # "not implemented yet"
    /\ caps.iOCounterStat <=> platform.ioCounters # "not implemented yet"
    /\ caps.memoryInfoStat <=> platform.memoryInfo # "not implemented yet"

\* C13 as stated: a group is available iff its single probe read succeeds
\* or fails with an error other than the sentinel, each group by its own
\* read, and the prober has run exactly once for every Window handler
\* constructed and for every Stream request served.
C13_ProbedExactlyOnce ==
    HasProbed =>
        /\ probes = 1
        /\ ~platform.newProcessErr => DecidedByOwnProbe(ProbedCapabilities)

\* C13 amended: as above when the process handle was created; when
\* process.NewProcess failed the prober does not run at all and every group
\* is unavailable.  Requests to a Window handler never run it again.
C13_ProbedOncePerHandle ==
    /\ HasProbed /\ ~platform.newProcessErr =>
           /\ probes = 1
           /\ DecidedByOwnProbe(ProbedCapabilities)
    /\ HasProbed /\ platform.newProcessErr =>
           /\ probes = 0
           /\ ProbedCapabilities = NoCapabilities
    /\ ~HasProbed => probes = 0

\* a Window handler on a platform without CPU times only has served a
\* request and sampled, and its one probe has set the two other groups
C13_Witness ==
    /\ loop # "off"
    /\ platform.times = "not implemented yet"
    /\ platform.ioCounters = "nil"
    /\ platform.memoryInfo = "nil"
    /\ ~c.cpuTimeStat /\ c.iOCounterStat /\ c.memoryInfoStat
    /\ probes = 1
    /\ pc = "done"
    /\ Len(taken) >= 2

(***************************************************************************)
(* Samples whose reads fail.                                               *)
(***************************************************************************)
\* a platform whose process handle has no I/O counters
NoIOPlatform == [FullPlatform EXCEPT !.ioCounters = "not implemented yet"]

\* a Window handler of a short window and a Stream request, on a source
\* whose reads of the optional groups may fail
InitSampling ==
    /\ source = "failing"
    /\ \/ \E pf \in {FullPlatform, NoIOPlatform} :
            Constructed([Window |-> 1, Frequency |-> 1], pf)
       \/ /\ platform \in {FullPlatform, NoIOPlatform}
          /\ StreamBuilt([Frequency |-> 0])
          /\ flusher = TRUE
          /\ spc = "start"
          /\ sc = NoCapabilities
          /\ sprevious = NoRecord
          /\ sout = <<>>
          /\ sctxDone = FALSE
          /\ staken = <<>>

NextSampling ==
    \/ Tick
    \/ Sample
    \/ Cancel
    \/ StreamServe
    \/ StreamTick
    \/ StreamRow
    \/ StreamCancel

SpecSampling == InitSampling /\ [][NextSampling]_vars

\* the Records the handler of this behaviour took and its capabilities
RecordsTaken == IF loop # "off" THEN taken ELSE staken
CapabilitiesHeld == IF loop # "off" THEN c ELSE sc

\* what the n-th sample reads for a group when the read succeeds
Expected(n, g) ==
    CASE g = "cpuTimeStat"    -> Reading(n).User
      [] g = "iOCounterStat"  -> Reading(n).ReadCount
      [] g = "memoryInfoStat" -> Reading(n).RSS

\* the number of Records whose group g is zero, and of log lines about g
ZeroCount(g) ==
    Len(SelectSeq(RecordsTaken, LAMBDA r : r[g] = Zero64))
FailureCount(g) ==
    Len(SelectSeq(log, LAMBDA line : line = ReadFailure(g)))

\* C14: a sample never aborts.  Every Record taken has its timestamp, its
\* profile counters and its memory statistics; an enabled group is either
\* what the source held or, when its read failed, zero, whatever happened
\* to the other groups; every failed read was made and logged once (there
\* are as many failure lines for a group as Records with that group zero);
\* and the Record is delivered in that tick, as the newest element of the
\* Window buffer or as the row of a Stream session.
C14_SampleNeverAborts ==
    /\ \A n \in 1..Len(RecordsTaken) :
          LET r == RecordsTaken[n]
          IN  /\ r.ts = n
              /\ r.pprofPair = Reading(n).goroutine
              /\ r.memStats = Reading(n).Alloc
              /\ \A g \in Enabled(CapabilitiesHeld) :
                    r[g] \in {Expected(n, g), Zero64}
    /\ \A g \in Enabled(CapabilitiesHeld) : ZeroCount(g) = FailureCount(g)
    /\ loop \in {"waiting", "exited"} /\ taken # <<>>
          => rs[Len(rs)] = taken[Len(taken)]
    /\ spc \in {"waiting", "returned"}
          => /\ Len(Rows(sout)) = Len(staken) - 1
             /\ sprevious = staken[Len(staken)]

\* the CPU times could not be read in one sample, whose Record still holds
\* the memory information, and were read again in the next sample
C14_Witness ==
    /\ Len(RecordsTaken) >= 2
    /\ LET n == Len(RecordsTaken) - 1
       IN  /\ RecordsTaken[n].cpuTimeStat = Zero64
           /\ RecordsTaken[n].memoryInfoStat = Expected(n, "memoryInfoStat")
           /\ RecordsTaken[n + 1].cpuTimeStat = Expected(n + 1, "cpuTimeStat")
    /\ FailureCount("cpuTimeStat") = 1
    /\ loop = "waiting" \/ spc = "waiting"

(***************************************************************************)
(* Write errors of a Window request.                                       *)
(***************************************************************************)
\* the request has returned and no append fell into it
Returned == pc = "done" /\ out # <<>> /\ ~appended

\* C15 as stated: whichever fragment could not be written, the head or a
\* row, the handler still attempts every remaining row of the buffer.
C15_RenderContinues ==
    Returned => Pairs(out) = NeighbourPairs(atStart.rs)

\* C15 amended: every failed write of a Window request is logged; when the
\* head cannot be written the request ends there, without any row; when a
\* row cannot be written the handler still attempts every remaining row.
\* No step of a request stops the sampler or changes the buffer.
C15_RowFailureContinues ==
    /\ [][(out' # out /\ out' # <<>>) =>
             /\ log' = log \o WriteLog(out'[Len(out')].ok)
             /\ rs' = rs
             /\ loop' = loop
             /\ ctxDone' = ctxDone
             /\ taken' = taken]_vars
    /\ [](Returned =>
             IF out[1].ok
             THEN Pairs(out) = NeighbourPairs(atStart.rs)
             ELSE out = <<writeHead(c, FALSE)>>)

\* the first of three rows could not be written and the two others were
\* attempted; the sampler, which had been waiting, sampled after the request
C15_Witness ==
    /\ Returned
    /\ out[1].ok
    /\ Len(Rows(out)) = 3
    /\ ~Rows(out)[1].ok
    /\ Pairs(out) = NeighbourPairs(atStart.rs)
    /\ atStart.loop = "waiting"
    /\ taken[Len(taken)] \notin {atStart.rs[k] : k \in 1..Len(atStart.rs)}

(***************************************************************************)
(* Write errors of a Stream session.                                       *)
(***************************************************************************)
\* C16: a write error does not end a Stream session.  A session with a
\* flusher returns only at a tick that finds the request cancelled; an
\* uncancelled tick always goes on to sample; and the default branch,
\* whatever its Write and the Writes before it returned, takes a Record,
\* attempts its row, logs a failed write and sets previous to that Record.
C16_StreamSurvivesWriteErrors ==
    [][/\ (flusher /\ spc # "returned" /\ spc' = "returned")
            => (spc = "waiting" /\ sctxDone)
       /\ (spc = "waiting" /\ ~sctxDone /\ spc' # spc)
            => spc' = "sampling"
       /\ (spc = "sampling" /\ spc' # spc)
            => /\ spc' = "waiting"
               /\ Len(staken') = Len(staken) + 1
               /\ Len(Rows(sout')) = Len(Rows(sout)) + 1
               /\ Rows(sout')[Len(Rows(sout'))].time = staken'[Len(staken')].ts
               /\ sprevious' = staken'[Len(staken')]
               /\ log' = log \o WriteLog(Rows(sout')[Len(Rows(sout'))].ok)]_vars

\* the head could not be written, two rows were attempted after it and
\* the session, not cancelled, waits for its next tick
C16_Witness ==
    /\ flusher
    /\ spc = "waiting"
    /\ ~sctxDone
    /\ ~sout[1].ok
    /\ Len(Rows(sout)) = 2
    /\ ~Rows(sout)[2].ok
    /\ sprevious = staken[3]
    /\ WriteFailure \in {log[k] : k \in 1..Len(log)}

(***************************************************************************)
(* Defaults of the options.                                                *)
(***************************************************************************)
\* the options a caller may pass, zero fields among them
WindowOptsGiven == [Window : {0, 1, 3}, Frequency : {0, 1, 2}]
StreamOptsGiven == [Frequency : {0, 1, 2}]

\* a Window handler or a Stream request for each of these options, on a
\* steady source
InitDefaults ==
    /\ source = "steady"
    /\ \/ \E o \in WindowOptsGiven : Constructed(o, FullPlatform)
       \/ /\ platform = FullPlatform
          /\ \E o \in StreamOptsGiven : StreamBuilt(o)
          /\ flusher = TRUE
          /\ spc = "start"
          /\ sc = NoCapabilities
          /\ sprevious = NoRecord
          /\ sout = <<>>
          /\ sctxDone = FALSE
          /\ staken = <<>>

NextDefaults ==
    \/ Tick
    \/ Sample
    \/ Cancel
    \/ StreamServe
    \/ StreamTick
    \/ StreamRow
    \/ StreamCancel

SpecDefaults == InitDefaults /\ [][NextDefaults]_vars

\* C17: a zero window becomes 30s and a zero frequency 1s, for Window and
\* for Stream, and a field that is not zero is used as given; a Window
\* handler built from the zero options ticks every second and its buffer
\* holds 31 Records, no more.
C17_DefaultsApplied ==
    /\ loop # "off" =>
          /\ opts.Window = IF given.Window = 0 THEN 30 ELSE given.Window
          /\ opts.Frequency = IF given.Frequency = 0 THEN 1 ELSE given.Frequency
          /\ TickPeriod = IF given.Frequency = 0 THEN 1 ELSE given.Frequency
          /\ given = [Window |-> 0, Frequency |-> 0] =>
                /\ TickPeriod = 1
                /\ Len(rs) = Min(Len(taken), 31)
    /\ spc # "off" =>
          /\ sopts.Frequency = IF sgiven.Frequency = 0 THEN 1 ELSE sgiven.Frequency
          /\ StreamTickPeriod = IF sgiven.Frequency = 0 THEN 1 ELSE sgiven.Frequency

\* the handler of the zero options has sampled 33 times: its buffer holds
\* the 31 Records s3..s33
C17_Witness ==
    /\ given = [Window |-> 0, Frequency |-> 0]
    /\ opts = [Window |-> 30, Frequency |-> 1]
    /\ Len(taken) = 33
    /\ Len(rs) = 31
    /\ rs[1].ts = 3
    /\ rs[31].ts = 33

InitTimers ==
    /\ source = "varying"
    /\ \/ Constructed([Window |-> 1, Frequency |-> 1], FullPlatform)
       \/ /\ platform = FullPlatform
          /\ StreamBuilt([Frequency |-> 0])
          /\ flusher \in BOOLEAN
          /\ spc = "start"
          /\ sc = NoCapabilities
          /\ sprevious = NoRecord
          /\ sout = <<>>
          /\ sctxDone = FALSE
          /\ staken = <<>>

\* the handlers and the runtime, which may collect a ticker nothing refers to
NextTimers ==
    \/ Next
    \/ NextStream
    \/ TickerCollected

SpecTimers == InitTimers /\ [][NextTimers]_vars

\* the tickers keep ticking and the goroutines keep running: a tick that
\* is due is processed, and a sample or a row that was begun is finished
SpecLive ==
    /\ SpecTimers
    /\ WF_vars(Tick)
    /\ WF_vars(Sample)
    /\ WF_vars(StreamServe)
    /\ WF_vars(StreamTick)
    /\ WF_vars(StreamRow)

\* the loop of the Window sampler, of the Stream session, is running
WindowLoopRuns == loop \in {"waiting", "sampling"}
StreamLoopRuns == spc \in {"waiting", "sampling"}

\* C19: a sampling loop whose cancellation has fired exits in the end, as
\* long as its ticker ticks: the Window sampler stops, the Stream handler
\* returns.  And no loop exits unless its cancellation has fired.
C19_CancelledLoopsExit ==
    /\ (WindowLoopRuns /\ ctxDone) ~> (loop = "exited")
    /\ (StreamLoopRuns /\ sctxDone) ~> (spc = "returned")
    /\ [][/\ (WindowLoopRuns /\ ~WindowLoopRuns') => ctxDone
          /\ (StreamLoopRuns /\ ~StreamLoopRuns') => sctxDone]_vars

\* the Window sampler has sampled, was cancelled and has exited, before
\* any request came
C19_Witness ==
    /\ ctxDone
    /\ loop = "exited"
    /\ Len(taken) >= 1
    /\ pc = "idle"

\* the number of loops that are running
LoopsRunning ==
    (IF WindowLoopRuns THEN 1 ELSE 0) + (IF StreamLoopRuns THEN 1 ELSE 0)

\* C20: a loop that has exited has released its ticker: the number of
\* live tickers is the number of loops still running.
C20_TimersReleased == timers = LoopsRunning

(***************************************************************************)
(* The tier of a byte count.                                               *)
(***************************************************************************)
\* floor(log2(x)) for a word x # 0: the greatest k with 2^k <= x
Log2Floor(x) ==
    CHOOSE k \in 0..63 :
        /\ ~ULess(x, Pow2(k))
        /\ k < 63 => ULess(x, Pow2(k + 1))

\* the byte count formatted has a magnitude of 1024 or more
LargeCount == htext # "" /\ ~ULess(AbsBytes(hbytes), U64(1024))

\* C21: for a byte count of magnitude abs >= 1024 the tier of the text is
\* floor(log2(abs) / 10), so that each unit is entered exactly at its
\* power of 1024, and the magnitude printed, abs / 1024^tier, is at
\* least 1.
C21_TierByLog2 ==
    LargeCount =>
        LET abs  == AbsBytes(hbytes)
            tier == Log2Floor(abs) \div 10
            t    == Thousandths(abs, 10 * tier)
        IN  /\ BaseOf(abs) = tier
            /\ htext = TextOf(IsNegative64(hbytes), t, tier)
            /\ t >= 1000

\* C23: for every int64 byte count of magnitude 1024 or more, the most
\* negative one included, the index into " KMGTPE" lies between 1 and 6:
\* the lookup never panics and the letter written is one of K, M, G, T, P
\* and E, never the space.
C23_UnitIndexInRange ==
    LargeCount =>
        LET abs == AbsBytes(hbytes)
            t   == Thousandths(abs, 10 * BaseOf(abs))
        IN  /\ BaseOf(abs) \in 1..6
            /\ htext # IndexPanic
            /\ \E u \in {"K", "M", "G", "T", "P", "E"} :
                  htext = (IF IsNegative64(hbytes) THEN "-" ELSE "")
                          \o ToString(t \div 1000) \o "."
                          \o (IF t % 1000 < 10 THEN "00"
                              ELSE IF t % 1000 < 100 THEN "0" ELSE "")
                          \o ToString(t % 1000) \o " " \o u \o "iB"

\* math.MinInt64, whose negation is itself, has been written in EiB
C23_Witness ==
    /\ hbytes = Pow2(63)
    /\ IsNegative64(hbytes)
    /\ AbsBytes(hbytes) = hbytes
    /\ htext = "-8.000 EiB"


(***************************************************************************)
(* The widths of the table: the group header line, the column-name line    *)
(* and the cells of a row.                                                 *)
(***************************************************************************)
\* the colspan attributes of the group header line of writeHead, in the
\* order written: the empty th over the time column, pprof.Lookup,
\* runtime.MemStats, then the optional groups
HeadSpans(caps) ==
    <<1, 12, 52>>
    \o (IF caps.memoryInfoStat THEN <<14>> ELSE <<>>)
    \o (IF caps.cpuTimeStat THEN <<20>> ELSE <<>>)
    \o (IF caps.iOCounterStat THEN <<8>> ELSE <<>>)

\* the th elements each header function writes into the column-name line
writePprofTLookupMetricsHead ==
    <<"goroutine", "threadcreate", "heap", "allocs", "block", "mutex">>

writeProcessMemoryInfoStatMetricsTHead ==
    <<".RSS", ".VMS", ".HWM", ".Data", ".Stack", ".Locked", ".Swap">>

writeProcessIOCountersStatMetricsTHead ==
    <<".ReadCount", ".WriteCount", ".ReadBytes", ".WriteBytes">>

writeProcessCpuTimesStatMetricsTHead ==
    <<".User", ".System", ".Idle", ".Nice", ".Iowait", ".Irq", ".Softirq",
      ".Steal", ".Guest", ".GuestNice">>

writeRuntimeMemStatsMetricsTHead ==
    <<".Alloc", ".TotalAlloc", ".Sys", ".Lookups", ".Mallocs", ".Frees",
      ".HeapAlloc", ".HeapSys", ".HeapIdle", ".HeapInuse", ".HeapReleased",
      ".HeapObjects", ".StackInuse", ".StackSys", ".MSpanInuse", ".MSpanSys",
      ".MCacheInuse", ".MCacheSys", ".BuckHashSys", ".GCSys", ".OtherSys",
      ".NextGC", ".LastGC", ".PauseTotalNs", ".NumGC", ".NumForcedGC",
      ".OtherSys">>

\* the first th of the column-name line, "time", has no colspan attribute;
\* every other th of the column-name line is written with colspan="2"
NameSpan == 2

\* the named columns of the column-name line of writeHead, after "time"
HeadNames(caps) ==
    writePprofTLookupMetricsHead
    \o writeRuntimeMemStatsMetricsTHead
    \o (IF caps.memoryInfoStat THEN writeProcessMemoryInfoStatMetricsTHead ELSE <<>>)
    \o (IF caps.cpuTimeStat THEN writeProcessCpuTimesStatMetricsTHead ELSE <<>>)
    \o (IF caps.iOCounterStat THEN writeProcessIOCountersStatMetricsTHead ELSE <<>>)

\* the calls of a column writer each group writer makes for one row, named
\* by the field of current they print
PprofCols ==
    <<"goroutine", "threadcreate", "heap", "allocs", "block", "mutex">>

MemoryInfoStatCols ==
    <<"RSS", "VMS", "HWM", "Data", "Stack", "Locked", "Swap">>

IOCounterStatCols ==
    <<"ReadCount", "WriteCount", "ReadBytes", "WriteBytes">>

CpuTimeStatCols ==
    <<"User", "System", "Idle", "Nice", "Iowait", "Irq", "Softirq", "Steal",
      "Guest", "GuestNice">>

MemStatsCols ==
    <<"Alloc", "TotalAlloc", "Sys", "Lookups", "Mallocs", "Frees",
      "HeapAlloc", "HeapSys", "HeapIdle", "HeapInuse", "HeapReleased",
      "HeapObjects", "StackInuse", "StackSys", "MSpanInuse", "MSpanSys",
      "MCacheInuse", "MCacheSys", "BuckHashSys", "GCSys", "OtherSys",
      "NextGC", "LastGC", "PauseTotalNs", "NumGC", "NumForcedGC",
      "OtherSys">>

\* the calls of a column writer writeRow makes, through the group writers
RowCols(caps) ==
    PprofCols
    \o MemStatsCols
    \o (IF caps.memoryInfoStat THEN MemoryInfoStatCols ELSE <<>>)
    \o (IF caps.cpuTimeStat THEN CpuTimeStatCols ELSE <<>>)
    \o (IF caps.iOCounterStat THEN IOCounterStatCols ELSE <<>>)

\* every column writer (writeIntCol, writeUint64Col, writeBytesCol,
\* writeDuration, writeTime) opens one td for the value and one for the
\* difference
ColCells == 2

RECURSIVE SumOf(_)
SumOf(seq) == IF seq = <<>> THEN 0 ELSE Head(seq) + SumOf(Tail(seq))

\* the width of the group header line, of the column-name line (the th
\* "time" and the named columns) and of a row (the td of the time and the
\* cells of the columns)
GroupLineWidth(caps) == SumOf(HeadSpans(caps))
NameLineWidth(caps) == 1 + NameSpan * Len(HeadNames(caps))
RowWidth(caps) == 1 + ColCells * Len(RowCols(caps))

\* the three widths are the same
WidthsAgree(caps) ==
    /\ GroupLineWidth(caps) = NameLineWidth(caps)
    /\ NameLineWidth(caps) = RowWidth(caps)

\* C24: whatever the capabilities of a handler that has written a head, the
\* colspans of its group header line add up to the number of columns of
\* its column-name line, which is the number of cells of each of its rows
C24_WidthsAgree ==
    /\ out # <<>> => WidthsAgree(c)
    /\ sout # <<>> => WidthsAgree(sc)

\* the column-name line and the rows do have the same width
NamesMatchRows ==
    /\ NameLineWidth(c) = RowWidth(c)
    /\ NameLineWidth(sc) = RowWidth(sc)


(***************************************************************************)
(* A handler without a process handle.                                     *)
(***************************************************************************)
\* the methods of the process handle p that one call of getRecord invokes,
\* in the order of the calls
HandleReads(caps) ==
    (IF caps.cpuTimeStat THEN <<"TimesWithContext">> ELSE <<>>)
    \o (IF caps.iOCounterStat THEN <<"IOCountersWithContext">> ELSE <<>>)
    \o (IF caps.memoryInfoStat THEN <<"MemoryInfoWithContext">> ELSE <<>>)

\* the two groups that need no process handle
MandatoryGroups == <<"pprof.Lookup", "runtime.MemStats">>

\* the optional groups of record r are the zero value
OptionalGroupsZero(r) ==
    /\ r.cpuTimeStat = Zero64
    /\ r.iOCounterStat = Zero64
    /\ r.memoryInfoStat = Zero64

\* C25: when process.NewProcess has failed, at the construction of a Window
\* handler or at the start of a Stream request, the three capabilities are
\* false, getRecord calls no method of the handle (the optional groups of
\* every Record taken are zero and no read has been logged as failed), and
\* the head and the rows written show the pprof and MemStats groups only.
C25_ServesWithoutHandle ==
    platform.newProcessErr /\ HasProbed =>
        /\ ProbedCapabilities = NoCapabilities
        /\ HandleReads(ProbedCapabilities) = <<>>
        /\ \A k \in 1..Len(RecordsTaken) : OptionalGroupsZero(RecordsTaken[k])
        /\ \A k \in 1..Len(log) : log[k] \in {ProcessFailure, WriteFailure}
        /\ ShowsGroups(out, MandatoryGroups)
        /\ ShowsGroups(sout, MandatoryGroups)

\* process.NewProcess has failed and was logged; the Window handler has
\* sampled twice and has served a complete response of a head and one row
\* of the two mandatory groups
C25_Witness ==
    /\ platform.newProcessErr
    /\ log = <<ProcessFailure>>
    /\ Len(taken) = 2
    /\ Rendered
    /\ out[1] = writeHead(NoCapabilities, TRUE)
    /\ Len(Rows(out)) = 1
    /\ RowGroups(Rows(out)[1]) = MandatoryGroups


(***************************************************************************)
(* Window with rs as words in memory.  rs is a slice: a pointer into a     *)
(* backing array, a length and a capacity, each one word.  The sampler     *)
(* stores the words of a new value one by one and the handler loads them   *)
(* one by one; the two goroutines are not synchronised, so a handler can   *)
(* hold the pointer of one value of rs and the length of another.          *)
(***************************************************************************)
\* the capacity append gives the new backing array of a slice of capacity
\* oldCap that has to hold need elements (below 256 elements: the double,
\* or need when that is more)
GrowCap(oldCap, need) == IF need > 2 * oldCap THEN need ELSE 2 * oldCap

\* rs[1:]
Reslice1(s) ==
    [ptr |-> [arr |-> s.ptr.arr, off |-> s.ptr.off + 1],
     len |-> s.len - 1,
     cap |-> s.cap - 1]

\* the elements of slice s
Contents(heap, s) == [k \in 1..s.len |-> heap[s.ptr.arr][s.ptr.off + k]]

\* append(s, r): in place when the capacity allows, else into a new
\* backing array to which the elements of s are copied
AppendSlice(heap, s, r) ==
    IF s.len < s.cap
    THEN [heap  |-> [heap EXCEPT ![s.ptr.arr][s.ptr.off + s.len + 1] = r],
          slice |-> [s EXCEPT !.len = s.len + 1]]
    ELSE LET newCap == GrowCap(s.cap, s.len + 1)
             spare == [k \in 1..(newCap - s.len - 1) |-> NoRecord]
         IN  [heap  |-> Append(heap, Contents(heap, s) \o <<r>> \o spare),
              slice |-> [ptr |-> [arr |-> Len(heap) + 1, off |-> 0],
                         len |-> s.len + 1,
                         cap |-> newCap]]

\* the words of the header a handler reads
HeaderWords == {"ptr", "len"}

\* index k (Go index) lies within the backing array p points into
InArray(heap, p, k) == p.arr # 0 /\ p.off + k + 1 <= Len(heap[p.arr])

\* the default branch of the sampler: the Record is read and the new value
\* of rs is computed, append(rs, r) below max and append(rs[1:], r) else;
\* the words of the header that change are still to be stored
TornSample ==
    /\ loop = "sampling"
    /\ \E src \in Readings(source, Len(taken), c) :
         LET r == getRecord(c, Len(taken) + 1, src)
             base == IF mem.slice.len < WindowMax(opts)
                     THEN mem.slice ELSE Reslice1(mem.slice)
             res == AppendSlice(mem.heap, base, r)
         IN  /\ rs' = AppendRecord(rs, WindowMax(opts), r)
             /\ taken' = Append(taken, r)
             /\ log' = log \o getRecordLog(c, src)
             /\ mem' = [mem EXCEPT
                          !.heap = res.heap,
                          !.slice = res.slice,
                          !.pending = {w \in HeaderWords : res.slice[w] # mem.hdr[w]}]
    /\ loop' = "storing"
    /\ appended' = (appended \/ pc \notin {"idle", "done"})
    /\ UNCHANGED <<probes, timers>>
    /\ UNCHANGED <<opts, platform, c, ctxDone, pc, i, lenSeen, previous,
                   out, served, atStart>>
    /\ UNCHANGED <<streamVars, diffVars, bytesVars, fixedVars>>

\* "rs = ...": one word of the new header is stored, in either order
StoreWord ==
    /\ loop = "storing"
    /\ \E w \in mem.pending :
         /\ mem' = [mem EXCEPT !.hdr[w] = mem.slice[w], !.pending = @ \ {w}]
         /\ loop' = IF mem.pending = {w} THEN "waiting" ELSE "storing"
    /\ UNCHANGED <<opts, platform, c, rs, ctxDone, taken,
                   pc, i, lenSeen, previous, out, served, appended, atStart>>
    /\ UNCHANGED procVars
    /\ UNCHANGED <<streamVars, diffVars, bytesVars, fixedVars>>

\* case len(rs) == 0: the length word is loaded
TornCase0 ==
    /\ pc = "case0"
    /\ lenSeen' = mem.hdr.len
    /\ pc' = IF mem.hdr.len = 0 THEN "done" ELSE "case1"
    /\ UNCHANGED <<i, previous, out, served, appended, atStart, log>>
    /\ ReqUnchanged

\* case len(rs) == 1, else default
TornCase1 ==
    /\ pc = "case1"
    /\ lenSeen' = mem.hdr.len
    /\ pc' = IF mem.hdr.len = 1 THEN "single" ELSE "default"
    /\ i' = 1
    /\ UNCHANGED <<previous, out, served, appended, atStart, log>>
    /\ ReqUnchanged

\* rs[k]: the first of the two words of the header is loaded, the pointer
\* or the length; the other word is loaded by the step that follows
TornLoadWord ==
    /\ pc \in {"single", "default", "body", "single2", "default2", "body2"}
    /\ mem.loaded = {}
    /\ \E w \in HeaderWords :
         mem' = [mem EXCEPT !.loaded = {w}, !.regs[w] = mem.hdr[w]]
    /\ UNCHANGED <<pc, i, lenSeen, previous, out, served, appended, atStart, log>>
    /\ UNCHANGED <<opts, platform, c, rs, loop, ctxDone, taken>>
    /\ UNCHANGED <<probes, timers>>
    /\ UNCHANGED <<streamVars, diffVars, bytesVars, fixedVars>>

\* the first argument of writeRow, rs[0] or rs[i-1]: the other word is
\* loaded, the index is checked against the length, and the element is read
\* through the pointer; an index not below the length panics, a read
\* beyond the backing array (or through the nil pointer) is "outside"
TornReadPrevious ==
    /\ pc \in {"single", "default", "body"}
    /\ mem.loaded # {}
    /\ LET hd == [w \in HeaderWords |->
                     IF w \in mem.loaded THEN mem.regs[w] ELSE mem.hdr[w]]
           k == i - 1
       IN  IF k >= hd.len
           THEN pc' = "panic" /\ UNCHANGED previous
           ELSE IF ~InArray(mem.heap, hd.ptr, k)
           THEN pc' = "outside" /\ UNCHANGED previous
           ELSE /\ previous' = mem.heap[hd.ptr.arr][hd.ptr.off + k + 1]
                /\ pc' = CASE pc = "single"  -> "single2"
                            [] pc = "default" -> "default2"
                            [] pc = "body"    -> "body2"
    /\ mem' = [mem EXCEPT !.loaded = {}, !.regs = NilMemory.regs]
    /\ UNCHANGED <<i, lenSeen, out, served, appended, atStart, log>>
    /\ UNCHANGED <<opts, platform, c, rs, loop, ctxDone, taken>>
    /\ UNCHANGED <<probes, timers>>
    /\ UNCHANGED <<streamVars, diffVars, bytesVars, fixedVars>>

\* the second argument of writeRow, rs[0], rs[1] or rs[i], read in the same
\* way, and then the call of writeRow
TornWriteRow ==
    /\ pc \in {"single2", "default2", "body2"}
    /\ mem.loaded # {}
    /\ LET hd == [w \in HeaderWords |->
                     IF w \in mem.loaded THEN mem.regs[w] ELSE mem.hdr[w]]
           k == IF pc = "single2" THEN 0 ELSE i
       IN  IF k >= hd.len
           THEN pc' = "panic" /\ UNCHANGED <<out, i, log>>
           ELSE IF ~InArray(mem.heap, hd.ptr, k)
           THEN pc' = "outside" /\ UNCHANGED <<out, i, log>>
           ELSE /\ \E ok \in WriteResults(out) :
                     /\ out' = Append(out,
                                  writeRow(c, previous,
                                           mem.heap[hd.ptr.arr][hd.ptr.off + k + 1], ok))
                     /\ log' = log \o WriteLog(ok)
                /\ pc' = IF pc = "single2" THEN "done" ELSE "loop"
                /\ i' = i + 1
    /\ mem' = [mem EXCEPT !.loaded = {}, !.regs = NilMemory.regs]
    /\ UNCHANGED <<lenSeen, previous, served, appended, atStart>>
    /\ UNCHANGED <<opts, platform, c, rs, loop, ctxDone, taken>>
    /\ UNCHANGED <<probes, timers>>
    /\ UNCHANGED <<streamVars, diffVars, bytesVars, fixedVars>>

\* for i := 2; i < len(rs); i++
TornLoop ==
    /\ pc = "loop"
    /\ lenSeen' = mem.hdr.len
    /\ pc' = IF i < mem.hdr.len THEN "body" ELSE "done"
    /\ UNCHANGED <<i, previous, out, served, appended, atStart, log>>
    /\ ReqUnchanged

\* a Window of three Records on a steadily growing source
InitTorn ==
    /\ source = "steady"
    /\ Constructed([Window |-> 2, Frequency |-> 1], FullPlatform)

NextTorn ==
    \/ Tick
    \/ TornSample
    \/ StoreWord
    \/ Cancel
    \/ ReqStart
    \/ ReqHead
    \/ TornCase0
    \/ TornCase1
    \/ TornLoadWord
    \/ TornReadPrevious
    \/ TornWriteRow
    \/ TornLoop

SpecTorn == InitTorn /\ [][NextTorn]_vars

\* the slice the sampler holds has the Records of rs, and the header in
\* memory is that slice whenever the sampler is not storing
MemoryIsBuffer ==
    /\ Contents(mem.heap, mem.slice) = rs
    /\ mem.slice.len <= mem.slice.cap
    /\ mem.slice.ptr.arr # 0 =>
          mem.slice.ptr.off + mem.slice.cap = Len(mem.heap[mem.slice.ptr.arr])
    /\ loop # "storing" =>
          /\ mem.pending = {}
          /\ mem.hdr = [w \in HeaderWords |-> mem.slice[w]]

\* the length of rs in memory never decreases and stays within max
LengthNeverDecreases ==
    [][/\ mem'.hdr.len >= mem.hdr.len
       /\ mem'.hdr.len <= WindowMax(opts)]_vars

\* C22: under every interleaving of the sampler with a request, the handler
\* reads no element of rs at an index outside its bounds: neither at an
\* index that is not below the length it loaded, nor through a pointer
\* whose backing array does not reach that index.
C22_ReadsWithinBounds == pc \notin {"panic", "outside"}

\* the index is never found at or beyond the length
NoIndexPanic == pc # "panic"

====
